---- MODULE Spec2Model ----
(***************************************************************************)
(* Model of the tusk user back end: the handlers of                        *)
(* controllers/user_controller.go (Login, CreateAccount, Delete,           *)
(* GetEmployee) and the seed routine CreateOwnerAccount of                 *)
(* config/database.go, running as concurrent requests over one user table. *)
(*                                                                         *)
(* Every database statement is one atomic step.  A handler that issues one *)
(* statement (Login, GetEmployee, and the paths of the others that answer  *)
(* after the existence check) is one step; CreateAccount, Delete and       *)
(* CreateOwnerAccount issue an existence check and then an insert or a     *)
(* delete, two steps that other requests may run between.                  *)
(*                                                                         *)
(* The environment: the database answers every statement and bcrypt hashes *)
(* every password a request carries, so the branches that answer 500 are   *)
(* not taken; WHERE clauses compare strings exactly; rows carry no         *)
(* timestamps.  The user table has no unique index on email.               *)
(***************************************************************************)
EXTENDS Integers, Sequences, FiniteSets, Bags, TLC

(* ------------------------------ bounds --------------------------------- *)

\* Number of requests that may be between their two database statements at
\* once.
MaxInFlight == 2

\* Highest id the auto-increment key hands out.
MaxId == 2

(* ------------------------- program constants --------------------------- *)

\* binding:"required,min=6" on CreateUserRequest.Password
MinPasswordLen == 6

StatusOK == 200
StatusCreated == 201
StatusBadRequest == 400
StatusUnauthorized == 401
StatusNotFound == 404

OwnerEmail == "owner@go.id"
OwnerPassword == "123456"

(* ------------------------------ inputs --------------------------------- *)

ValidNames == {"A"}
ValidEmails == {"a@x.com", OwnerEmail}
ValidPasswords == {"secret1"}
BodyRoles == {"", "Admin"}
Salts == {"s1", "s2"}

Body(name, email, password, role) ==
    [name |-> name, email |-> email, password |-> password, role |-> role]

\* The JSON body of a request.  A missing field is the empty string (the zero
\* value the binder leaves); "role" is a field no request struct has.  The
\* bodies are the well-formed ones and those with a single defect: a missing
\* name, a missing or malformed email, a missing or short password.
GoodBodies ==
    {Body(n, e, pw, r) : n \in ValidNames, e \in ValidEmails,
                         pw \in ValidPasswords, r \in BodyRoles}
Bodies ==
    GoodBodies
    \cup {Body("", "a@x.com", "secret1", ""), Body("A", "", "secret1", ""),
          Body("A", "bad", "secret1", ""), Body("A", "a@x.com", "", ""),
          Body("A", "a@x.com", "abc", "")}

\* Login reads only email and password; "abc" is a password no row was
\* created with.
LoginPasswords == ValidPasswords \cup {OwnerPassword, "abc"}
LoginBodies ==
    {Body("", e, pw, "") : e \in ValidEmails, pw \in LoginPasswords}
    \cup {Body("", "", "secret1", ""), Body("", "bad", "secret1", ""),
          Body("", "a@x.com", "", "")}

\* The path parameter of Delete, as its characters.
PathIds ==
    {<<"1">>, <<"2">>, <<"3">>, <<"0", "1">>, <<"+", "2">>, <<"-", "1">>,
     <<"x">>, <<"1", "x">>, <<"-">>}

(* ------------------------------- state --------------------------------- *)

VARIABLES
    users,        \* the user table: a set of rows
    nextId,       \* the table's auto-increment counter
    inflight,     \* the requests past their existence check and before their
                  \* write: a bag of the handlers' local variables, each with
                  \* the statement it is about to issue
    lastResp,     \* what the latest step sent: a response, a seed log line, or nothing
    interleaved   \* history: some step ran while another request was in flight

vars == <<users, nextId, inflight, lastResp, interleaved>>

NoResp == [handler |-> "none", status |-> 0, dbOps |-> 0]

(* --------------------------- library calls ----------------------------- *)

\* validator's "email" tag, on the emails requests are drawn from
IsEmail(e) == e \in ValidEmails

\* the hash bcrypt computes from a password and a salt, at DefaultCost
HashTable ==
    [pw \in LoginPasswords \cup {""} |-> [salt \in Salts |-> "$2a$10$" \o salt \o "$" \o pw]]

\* bcrypt.GenerateFromPassword(pw, DefaultCost) with the random salt drawn
BcryptHash(pw, salt) == HashTable[pw][salt]

\* bcrypt.CompareHashAndPassword(hash, pw) = nil: the hash of pw under the
\* salt the stored hash carries is the stored hash
BcryptMatches(hash, pw) == \E salt \in Salts : hash = HashTable[pw][salt]

\* the value of a decimal digit, -1 for any other character
DigitVal(c) ==
    CASE c = "0" -> 0 [] c = "1" -> 1 [] c = "2" -> 2 [] c = "3" -> 3 [] c = "4" -> 4
      [] c = "5" -> 5 [] c = "6" -> 6 [] c = "7" -> 7 [] c = "8" -> 8 [] c = "9" -> 9
      [] OTHER -> -1

RECURSIVE DigitsValue(_)
DigitsValue(s) ==
    IF s = <<>> THEN 0
    ELSE 10 * DigitsValue(SubSeq(s, 1, Len(s) - 1)) + DigitVal(s[Len(s)])

\* strconv.Atoi: an optional sign, then one or more decimal digits (the path
\* parameters of the model are far from the range error of a long number)
Atoi(s) ==
    LET signed == s # <<>> /\ s[1] \in {"-", "+"}
        digits == IF signed THEN Tail(s) ELSE s
        ok     == digits # <<>> /\ \A i \in 1..Len(digits) : DigitVal(digits[i]) >= 0
    IN  IF ~ok THEN [ok |-> FALSE, val |-> 0]
        ELSE [ok |-> TRUE,
              val |-> IF signed /\ s[1] = "-" THEN 0 - DigitsValue(digits)
                      ELSE DigitsValue(digits)]

\* strconv.Atoi(c.Param("id")) for each path parameter of the model
ParsedId == [s \in PathIds |-> Atoi(s)]

(* ------------------------------ database ------------------------------- *)

\* models.User, one row; the table has no unique index on email
User(id, role, name, email, password) ==
    [id |-> id, role |-> role, name |-> name, email |-> email, password |-> password]

\* db.Where("email = ?", e).First(&u): the matching rows, First takes the
\* one with the lowest primary key
RowsByEmail(e) == {r \in users : r.email = e}
RowsById(id) == {r \in users : r.id = id}
FirstOf(rows) == CHOOSE r \in rows : \A o \in rows : r.id <= o.id

\* db.Create(&u): the row gets the next auto-increment id
DBCreate(role, name, email, password) ==
    /\ users' = users \cup {User(nextId, role, name, email, password)}
    /\ nextId' = nextId + 1

\* db.Delete(&u): DELETE ... WHERE id = u.Id; no error when no row matches
DBDelete(u) ==
    /\ users' = {r \in users : r.id # u.id}
    /\ UNCHANGED nextId

NoWrite == UNCHANGED <<users, nextId>>

\* The auto-increment key is capped: a request goes on to its insert only
\* while an id within MaxId is left for it.
PendingInserts ==
    LET inserting == {req \in BagToSet(inflight) : req.kind \in {"create", "seed"}}
    IN  BagCardinality([req \in inserting |-> inflight[req]])
CanInsert == nextId + PendingInserts <= MaxId

\* a request may stop between its two statements while a slot is free
CanSuspend == BagCardinality(inflight) < MaxInFlight

(* ------------------------------ responses ------------------------------ *)

\* UserResponse built from a row (no password field)
UserResponse(u) == [id |-> u.id, role |-> u.role, name |-> u.name, email |-> u.email]

Reply(handler, status, ops, rest) ==
    [handler |-> handler, status |-> status, dbOps |-> ops] @@ rest

ErrorBody(msg) == [error |-> msg]

\* the first statement of a request: it overlaps whatever is in flight
FirstStep == interleaved' = (interleaved \/ inflight # EmptyBag)

\* the request goes on to its second statement
Suspend(req) == inflight' = inflight (+) SetToBag({req})

\* the second statement of request req: it overlaps the others in flight
Resume(req) ==
    /\ BagIn(req, inflight)
    /\ inflight' = inflight (-) SetToBag({req})
    /\ interleaved' = (interleaved \/ BagCardinality(inflight) > 1)

Init ==
    /\ users = {}
    /\ nextId = 1
    /\ inflight = EmptyBag
    /\ lastResp = NoResp
    /\ interleaved = FALSE

(* -------------------------------- Login -------------------------------- *)

\* ShouldBindJSON(&loginReq)
LoginBinds(body) ==
    /\ body.email # "" /\ IsEmail(body.email)
    /\ body.password # ""

\* changed: an unknown email is told apart from a wrong password
LoginUnknownEmailReplyTelling ==
    Reply("Login", StatusNotFound, 1, ErrorBody("Email not found"))

\* the reply when no row has the email
LoginUnknownEmailReply ==
    Reply("Login", StatusUnauthorized, 1, ErrorBody("Email or Password is Wrong"))

\* the reply when the password does not verify
LoginWrongPasswordReply ==
    Reply("Login", StatusUnauthorized, 1, ErrorBody("Email or Password is Wrong"))

LoginResult(body) ==
    IF ~LoginBinds(body)
    THEN Reply("Login", StatusBadRequest, 0, ErrorBody("validation"))
    ELSE IF RowsByEmail(body.email) = {}
    THEN LoginUnknownEmailReply
    ELSE LET user == FirstOf(RowsByEmail(body.email))
         IN  IF ~BcryptMatches(user.password, body.password)
             THEN LoginWrongPasswordReply
             ELSE Reply("Login", StatusOK, 1,
                        [message |-> "Login successful", user |-> UserResponse(user)])

Login(body) ==
    /\ lastResp' = LoginResult(body)
    /\ NoWrite
    /\ UNCHANGED inflight
    /\ FirstStep

(* ---------------------------- CreateAccount ---------------------------- *)

\* changed: the min=6 tag on the password is missing
CreateBindsNoMin(body) ==
    /\ body.name # ""
    /\ body.email # "" /\ IsEmail(body.email)
    /\ body.password # ""

\* ShouldBindJSON(&createReq)
CreateBinds(body) ==
    /\ body.name # ""
    /\ body.email # "" /\ IsEmail(body.email)
    /\ body.password # "" /\ Len(body.password) >= MinPasswordLen

\* the fields CreateUserRequest keeps of the body
CreateUserRequest(body) ==
    [kind |-> "create", name |-> body.name, email |-> body.email,
     password |-> body.password]

\* changed: the role literal of the seed routine
NewUserRoleAdmin(req) == "Admin"

\* the role of the row CreateAccount builds
NewUserRole(req) == "Employee"

\* changed: the password is stored as given
NewUserPasswordPlain(req, salt) == req.password

\* the password column of the row CreateAccount builds
NewUserPassword(req, salt) == BcryptHash(req.password, salt)

\* changed: the existence check looks at Employee rows only
EmailTakenAmongEmployees(email) == \E r \in RowsByEmail(email) : r.role = "Employee"

\* the existence check on the email: First(&existingUser).Error == nil
EmailTaken(email) == RowsByEmail(email) # {}

\* binding, then the existence check on the email
CreateAccount(body) ==
    /\ IF ~CreateBinds(body)
       THEN /\ lastResp' = Reply("CreateAccount", StatusBadRequest, 0,
                                 ErrorBody("validation"))
            /\ UNCHANGED inflight
       ELSE IF EmailTaken(body.email)
       THEN /\ lastResp' = Reply("CreateAccount", StatusBadRequest, 1,
                                 ErrorBody("Email already exists"))
            /\ UNCHANGED inflight
       ELSE /\ CanInsert /\ CanSuspend
            /\ Suspend(CreateUserRequest(body))
            /\ lastResp' = NoResp
    /\ NoWrite
    /\ FirstStep

\* hashing, the insert and the 201 response
CreateAccountInsert(req) ==
    /\ req.kind = "create"
    /\ Resume(req)
    /\ \E salt \in Salts :
         LET newUser == User(nextId, NewUserRole(req), req.name, req.email,
                             NewUserPassword(req, salt))
         IN  /\ DBCreate(newUser.role, newUser.name, newUser.email, newUser.password)
             /\ lastResp' = Reply("CreateAccount", StatusCreated, 2,
                                  [message |-> "User created successfully",
                                   user |-> UserResponse(newUser)])

(* -------------------------------- Delete ------------------------------- *)

\* changed: a missing row is reported as deleted
DeleteMissingReplySuccess ==
    Reply("Delete", StatusOK, 1, [message |-> "User deleted successfully"])

\* the reply when no row has the id
DeleteMissingReply == Reply("Delete", StatusNotFound, 1, ErrorBody("User not found"))

\* parsing the path id, then the existence check
Delete(idParam) ==
    /\ LET parsed == ParsedId[idParam]
       IN  IF ~parsed.ok
           THEN /\ lastResp' = Reply("Delete", StatusBadRequest, 0,
                                     ErrorBody("Invalid user ID"))
                /\ UNCHANGED inflight
           ELSE IF RowsById(parsed.val) = {}
           THEN /\ lastResp' = DeleteMissingReply
                /\ UNCHANGED inflight
           ELSE /\ CanSuspend
                /\ Suspend([kind |-> "delete", user |-> FirstOf(RowsById(parsed.val))])
                /\ lastResp' = NoResp
    /\ NoWrite
    /\ FirstStep

\* the delete statement and the 200 response
DeleteExec(req) ==
    /\ req.kind = "delete"
    /\ Resume(req)
    /\ LET user == req.user
       IN  /\ DBDelete(user)
           /\ lastResp' = Reply("Delete", StatusOK, 2,
                                [message |-> "User deleted successfully",
                                 deletedUser |-> [id |-> user.id, name |-> user.name,
                                                  email |-> user.email]])

(* ----------------------------- GetEmployee ----------------------------- *)

\* changed: the role filter is missing
EmployeeRowsUnfiltered == users

\* Select(...).Where("role = ?", "Employee").Find(&users)
EmployeeRows == {r \in users : r.role = "Employee"}

\* the rows of a result set as a list, in primary-key order
RECURSIVE RowList(_)
RowList(rows) ==
    IF rows = {} THEN <<>>
    ELSE LET first == FirstOf(rows) IN <<first>> \o RowList(rows \ {first})

\* the loop that appends one UserResponse per row
UserResponses(rowList) == [i \in 1..Len(rowList) |-> UserResponse(rowList[i])]

GetEmployee ==
    /\ LET userResponses == UserResponses(RowList(EmployeeRows))
       IN  lastResp' = Reply("GetEmployee", StatusOK, 1,
                             [message |-> "Employees retrieved successfully",
                              count |-> Len(userResponses),
                              employees |-> userResponses])
    /\ NoWrite
    /\ UNCHANGED inflight
    /\ FirstStep

(* -------------------------- CreateOwnerAccount ------------------------- *)

\* changed: the lookup only counts a row that is already the Admin
OwnerExistsAsAdmin(email) == \E r \in RowsByEmail(email) : r.role = "Admin"

\* the lookup of the owner's email: First(&owner).RowsAffected # 0
OwnerExists(email) == RowsByEmail(email) # {}

\* the owner row built before the lookup, its password already hashed
CreateOwnerAccount ==
    /\ \E salt \in Salts :
         LET owner == [kind |-> "seed", role |-> "Admin", name |-> "Owner",
                       password |-> BcryptHash(OwnerPassword, salt),
                       email |-> OwnerEmail]
         IN  IF ~OwnerExists(owner.email)
             THEN /\ CanInsert /\ CanSuspend
                  /\ Suspend(owner)
                  /\ lastResp' = NoResp
             ELSE /\ lastResp' = Reply("CreateOwnerAccount", 0, 1,
                                       [log |-> "Owner account already exists"])
                  /\ UNCHANGED inflight
    /\ NoWrite
    /\ FirstStep

\* db.Create(&owner) and the log line
CreateOwnerAccountInsert(owner) ==
    /\ owner.kind = "seed"
    /\ Resume(owner)
    /\ DBCreate(owner.role, owner.name, owner.email, owner.password)
    /\ lastResp' = Reply("CreateOwnerAccount", 0, 2,
                         [log |-> "Owner account created!"])

(* ----------------------------- specification --------------------------- *)

Next ==
    \/ \E body \in LoginBodies : Login(body)
    \/ \E body \in Bodies : CreateAccount(body)
    \/ \E req \in BagToSet(inflight) : CreateAccountInsert(req)
    \/ \E idParam \in PathIds : Delete(idParam)
    \/ \E req \in BagToSet(inflight) : DeleteExec(req)
    \/ GetEmployee
    \/ CreateOwnerAccount
    \/ \E owner \in BagToSet(inflight) : CreateOwnerAccountInsert(owner)

Spec == Init /\ [][Next]_vars

(* -------------------------------- claims ------------------------------- *)

Ids(rows) == {r.id : r \in rows}
WellFormed(body) ==
    /\ body.name \in ValidNames
    /\ body.email \in ValidEmails
    /\ Len(body.password) >= 6

EmailExistsReply ==
    [handler |-> "CreateAccount", status |-> 400, dbOps |-> 1,
     error |-> "Email already exists"]

\* C1: CreateAccount with a valid body whose email already belongs to a row
\* answers 400 "Email already exists", inserts no row and leaves the table
\* as it was.
C1_DuplicateEmailRejected ==
    [][\A body \in Bodies :
         (/\ WellFormed(body)
          /\ \E r \in users : r.email = body.email
          /\ CreateAccount(body))
         => /\ lastResp' = EmailExistsReply
            /\ users' = users
            /\ nextId' = nextId
            /\ inflight' = inflight]_vars

\* a duplicate was just refused while the table holds the row with the email
C1_Witness ==
    /\ lastResp = EmailExistsReply
    /\ users # {}
    /\ inflight = EmptyBag

GenericLoginFailure ==
    [handler |-> "Login", status |-> 401, dbOps |-> 1,
     error |-> "Email or Password is Wrong"]

\* C2: a well-formed Login gets one and the same response, 401 "Email or
\* Password is Wrong", when no row has the email and when the row found has
\* the email but the password does not verify against its hash.
C2_LoginFailuresIndistinguishable ==
    [][\A body \in LoginBodies :
         (/\ body.email \in ValidEmails /\ body.password # ""
          /\ Login(body)
          /\ \/ ~\E r \in users : r.email = body.email
             \/ \E r \in users :
                  /\ r.email = body.email
                  /\ \A o \in users : o.email = body.email => r.id <= o.id
                  /\ ~BcryptMatches(r.password, body.password))
         => lastResp' = GenericLoginFailure]_vars

\* every email a request can name has a row, so the generic failure just
\* sent answered a wrong password; the unknown-email case is the same reply
C2_Witness ==
    /\ lastResp = GenericLoginFailure
    /\ \A e \in ValidEmails : \E r \in users : r.email = e

ValidationReply ==
    [handler |-> "CreateAccount", status |-> 400, dbOps |-> 0, error |-> "validation"]

\* C4: CreateAccount with a password shorter than 6 characters, a missing
\* name, email or password, or a malformed email answers 400 having issued
\* no database statement, and the table is unchanged.
C4_InvalidBodyRejectedBeforeDatabase ==
    [][\A body \in Bodies :
         (~WellFormed(body) /\ CreateAccount(body))
         => /\ lastResp' = ValidationReply
            /\ users' = users
            /\ nextId' = nextId
            /\ inflight' = inflight]_vars

\* a body was refused by validation while rows exist
C4_Witness ==
    /\ lastResp = ValidationReply
    /\ users # {}

NotIntegerPathIds == {<<"x">>, <<"1", "x">>, <<"-">>}
UserNotFoundReply ==
    [handler |-> "Delete", status |-> 404, dbOps |-> 1, error |-> "User not found"]
InvalidIdReply ==
    [handler |-> "Delete", status |-> 400, dbOps |-> 0, error |-> "Invalid user ID"]

\* C5: Delete for an integer id no row has answers 404 "User not found" and
\* changes no row; Delete for a path id that is not an integer answers 400
\* without a database statement.
C5_DeleteMissingOrInvalid ==
    [][\A idParam \in PathIds :
         Delete(idParam)
         => /\ (idParam \in NotIntegerPathIds)
                => lastResp' = InvalidIdReply /\ users' = users /\ inflight' = inflight
            /\ (idParam \notin NotIntegerPathIds /\ ParsedId[idParam].val \notin Ids(users))
                => lastResp' = UserNotFoundReply /\ users' = users
                   /\ inflight' = inflight]_vars

\* a Delete of an absent id was just answered while other rows exist
C5_Witness ==
    /\ lastResp = UserNotFoundReply
    /\ users # {}

\* C3: Login with the email of an existing row and the password that row was
\* created with answers 200 with that row's id, role, name and email and no
\* password field, and Login never changes the user table.
C3_LoginReturnsTheRow ==
    [][\A body \in LoginBodies, r \in users :
         (/\ r.email = body.email
          /\ BcryptMatches(r.password, body.password)
          /\ Login(body))
         => /\ lastResp' = [handler |-> "Login", status |-> 200, dbOps |-> 1,
                            message |-> "Login successful",
                            user |-> [id |-> r.id, role |-> r.role, name |-> r.name,
                                      email |-> r.email]]
            /\ users' = users]_vars

\* C6: every entry GetEmployee returns has role "Employee", no Admin row is
\* listed, every Employee row of the table is listed, and count is the number
\* of entries.
C6_GetEmployeeListsExactlyEmployees ==
    [][GetEmployee
         => LET list == lastResp'.employees
            IN  /\ lastResp'.handler = "GetEmployee" /\ lastResp'.status = 200
                /\ \A i \in 1..Len(list) : list[i].role = "Employee"
                /\ {list[i] : i \in 1..Len(list)}
                     = {[id |-> r.id, role |-> r.role, name |-> r.name, email |-> r.email] :
                          r \in {u \in users : u.role = "Employee"}}
                /\ \A i, j \in 1..Len(list) : i # j => list[i].id # list[j].id
                /\ lastResp'.count = Len(list)
                /\ users' = users]_vars

\* a listing was just sent that has entries while the table holds an Admin row
C6_Witness ==
    /\ lastResp.handler = "GetEmployee"
    /\ lastResp.count >= 1
    /\ \E r \in users : r.role = "Admin"

SharedEmail == \E r1, r2 \in users : r1.id # r2.id /\ r1.email = r2.email

\* C8: as long as requests run one at a time no two rows share an email;
\* two CreateAccount requests for one email that overlap can both pass the
\* check and both insert, each answered 201.
C8_UniqueEmailsWhenSequential == ~interleaved => ~SharedEmail

\* a 201 was just sent for a row whose email another Employee row already has
C8_Witness ==
    /\ interleaved
    /\ lastResp.handler = "CreateAccount" /\ lastResp.status = 201
    /\ \E r1, r2 \in users :
         /\ r2.id = lastResp.user.id /\ r1.id # r2.id
         /\ r1.email = r2.email
         /\ r1.role = "Employee" /\ r2.role = "Employee"

OwnerRows(rows) == {r \in rows : r.email = OwnerEmail}

\* C9: CreateOwnerAccount inserts the Admin row with email "owner@go.id" only
\* if no row has that email; if a row has it, whatever its role, the routine
\* inserts nothing and changes no row; and while runs do not overlap, a run
\* that ends leaves exactly one row with that email.
C9_SeedIdempotentWhenSequential ==
    [][/\ (CreateOwnerAccount /\ OwnerRows(users) # {})
            => users' = users /\ nextId' = nextId /\ inflight' = inflight
       /\ (CreateOwnerAccount /\ OwnerRows(users) = {})
            => users' = users /\ BagCardinality(inflight') = BagCardinality(inflight) + 1
       /\ \A owner \in BagToSet(inflight) :
            /\ CreateOwnerAccountInsert(owner)
               => \E row \in users' :
                    /\ users' = users \cup {row}
                    /\ row.id \notin Ids(users)
                    /\ row.role = "Admin" /\ row.name = "Owner"
                    /\ row.email = OwnerEmail
                    /\ BcryptMatches(row.password, "123456")
            /\ (CreateOwnerAccountInsert(owner) /\ ~interleaved')
               => Cardinality(OwnerRows(users')) = 1
       /\ (CreateOwnerAccount /\ inflight' = inflight /\ ~interleaved')
            => Cardinality(OwnerRows(users')) = 1]_vars

\* a second run just found the owner's email on an Employee row and inserted
\* nothing
C9_Witness ==
    /\ ~interleaved
    /\ lastResp = [handler |-> "CreateOwnerAccount", status |-> 0, dbOps |-> 1,
                   log |-> "Owner account already exists"]
    /\ \E r \in users : r.email = OwnerEmail /\ r.role = "Employee"
    /\ ~\E r \in users : r.role = "Admin"

\* C10: every Delete that answers 200 "User deleted successfully" removed
\* exactly the row whose id was requested and left the others unchanged, so
\* each row is reported deleted by at most one request.
C10_DeleteReportsARemovedRow ==
    [][\A req \in BagToSet(inflight) :
         (DeleteExec(req) /\ lastResp'.status = 200)
         => \E r \in users :
              /\ r.id = req.user.id
              /\ users' = users \ {r}]_vars

====
